---- MODULE Spec2Model ----
(***************************************************************************)
(* Model of the GPS-track to SVG-path conversion of sticky-svg-route-map   *)
(* (src/src/components/TrackInfo.tsx: CoordinateTransform and              *)
(* TrackToSVGConverter).                                                   *)
(*                                                                         *)
(* JavaScript numbers are modelled as extended rationals [n, d]:           *)
(*   d > 0  the finite value n/d, in lowest terms;                         *)
(*   d = 0  +Infinity (n = 1), -Infinity (n = -1) or NaN (n = 0).          *)
(* Rounding error of the binary floating point format is not modelled.     *)
(* A distance (the result of Math.sqrt) is carried as its square, which    *)
(* orders the same way.                                                    *)
(***************************************************************************)
EXTENDS Integers, Sequences, FiniteSets, Bags, TLC

VARIABLES
    call,        \* the public operation that ran last ("none" before any)
    points,      \* simplifyPath: the planar input run
    tolerance,   \* simplifyPath: the tolerance argument
    simplified,  \* simplifyPath: its outcome (a return value or a throw)
    trackData,   \* the parsed track: name, points, bounds
    options,     \* the options object handed to convert
    dimensions,  \* calculateOptimalDimensions: its result
    svgCoord,    \* gpsToSVG: the GPX point projected last and its result
    svgTrack,    \* convert: its outcome (a return value or a throw)
    trackPoints, \* parseGPXFile: the trkpt elements of the uploaded file
    parsed,      \* parseGPXFile: its outcome (a return value or a throw)
    mode,        \* StickyRouteMap: the mode prop
    routeRefs,   \* StickyRouteMap: the route path elements (length and style)
    prefersReducedMotion,    \* state of usePrefersReducedMotion (reduced)
    isVisible,               \* state: isVisible
    entranceEffectCompleted, \* state: entranceEffectCompleted
    scrollProgress,          \* state: scrollProgress
    pathLengths,             \* state: pathLengths
    rendered,    \* the state values the callbacks of the last render closed over
    reported,    \* what the current IntersectionObserver reported last
    runs,        \* the bag of entrance effects under way, each with its closure
    scrollY,     \* window.scrollY, the scroll position of the page
    demoTrackData,  \* GPXDemo: state trackData
    svgData,        \* GPXDemo: state svgData
    isConverting,   \* GPXDemo: state isConverting
    conversions     \* GPXDemo: the calls of handleTrackLoaded waiting for their timer

metricsVars == <<trackPoints, parsed>>

stickyVars == <<mode, routeRefs, prefersReducedMotion, isVisible, entranceEffectCompleted,
                scrollProgress, pathLengths, rendered, reported, runs, scrollY>>

demoVars == <<demoTrackData, svgData, isConverting, conversions>>

vars == <<call, points, tolerance, simplified, trackData, options,
          dimensions, svgCoord, svgTrack, metricsVars, stickyVars, demoVars>>

----------------------------------------------------------------------------
(* JavaScript number arithmetic *)

Abs(x) == IF x < 0 THEN -x ELSE x

Sign(x) == IF x < 0 THEN -1 ELSE IF x > 0 THEN 1 ELSE 0

RECURSIVE GCD(_, _)
GCD(a, b) == IF b = 0 THEN a ELSE GCD(b, a % b)

Num(n, d) ==
    IF d = 0 THEN [n |-> Sign(n), d |-> 0]
    ELSE LET s == IF d < 0 THEN -1 ELSE 1
             g == GCD(Abs(n), Abs(d))
         IN  [n |-> (s * n) \div g, d |-> (s * d) \div g]

Whole(i) == [n |-> i, d |-> 1]

NaN == [n |-> 0, d |-> 0]

Infinity == [n |-> 1, d |-> 0]

IsNaN(a) == a.n = 0 /\ a.d = 0

IsFinite(a) == a.d > 0

RNeg(a) == [n |-> -a.n, d |-> a.d]

RAdd(a, b) ==
    IF a.d = 1 /\ b.d = 1 THEN [n |-> a.n + b.n, d |-> 1]
    ELSE IF a.d > 0 /\ b.d > 0
    THEN LET g == GCD(a.d, b.d)
         IN  Num(a.n * (b.d \div g) + b.n * (a.d \div g), (a.d \div g) * b.d)
    ELSE IF IsNaN(a) \/ IsNaN(b) THEN NaN
    ELSE IF a.d = 0 /\ b.d = 0 THEN (IF a.n = b.n THEN a ELSE NaN)
    ELSE IF a.d = 0 THEN a ELSE b

RSub(a, b) == RAdd(a, RNeg(b))

RMul(a, b) ==
    IF a.d = 1 /\ b.d = 1 THEN [n |-> a.n * b.n, d |-> 1]
    ELSE IF a.d > 0 /\ b.d > 0 /\ a.n # 0 /\ b.n # 0
    THEN LET g == GCD(Abs(a.n), b.d)
             h == GCD(Abs(b.n), a.d)
         IN  [n |-> (a.n \div g) * (b.n \div h), d |-> (a.d \div h) * (b.d \div g)]
    ELSE Num(Sign(a.n) * Sign(b.n), a.d * b.d)

RInv(b) == IF b.n < 0 THEN [n |-> -b.d, d |-> -b.n] ELSE [n |-> b.d, d |-> b.n]

RDiv(a, b) == RMul(a, RInv(b))

(* an/ad < bn/bd for an, bn >= 0 and ad, bd > 0, by integer parts and then *)
(* the reciprocals of the fractional parts (no product is formed)         *)
RECURSIVE LtFraction(_, _, _, _)
LtFraction(an, ad, bn, bd) ==
    IF an \div ad # bn \div bd THEN an \div ad < bn \div bd
    ELSE IF bn % bd = 0 THEN FALSE
    ELSE IF an % ad = 0 THEN TRUE
    ELSE LtFraction(bd, bn % bd, ad, an % ad)

RLt(a, b) ==
    /\ ~IsNaN(a)
    /\ ~IsNaN(b)
    /\ IF a.d = b.d THEN a.n < b.n
       ELSE IF a.d = 0 \/ b.d = 0 THEN a.n * b.d < b.n * a.d
       ELSE IF a.n < 0 /\ b.n >= 0 THEN TRUE
       ELSE IF a.n >= 0 /\ b.n < 0 THEN FALSE
       ELSE IF a.n < 0 THEN LtFraction(-b.n, b.d, -a.n, a.d)
       ELSE LtFraction(a.n, a.d, b.n, b.d)

RGt(a, b) == RLt(b, a)

RLe(a, b) == ~IsNaN(a) /\ ~IsNaN(b) /\ ~RLt(b, a)

StrictEq(a, b) == ~IsNaN(a) /\ ~IsNaN(b) /\ a = b

MathRound(a) ==
    IF a.d = 0 THEN a ELSE Whole((2 * a.n + a.d) \div (2 * a.d))

----------------------------------------------------------------------------
(* TrackToSVGConverter.pointToLineDistance, as the square of its result.   *)
(* The body is split into steps that hand each local constant on as a      *)
(* parameter.                                                              *)

(* Math.sqrt(dx * dx + dy * dy), squared *)
Hypot2(dx, dy) == RAdd(RMul(dx, dx), RMul(dy, dy))

(* param: -1 unless lenSq !== 0 *)
ParamOf(dot, lenSq) ==
    IF ~StrictEq(lenSq, Whole(0)) THEN RDiv(dot, lenSq) ELSE Whole(-1)

(* xx resp. yy: the coordinate of the point the distance is measured to *)
ClosestCoord(param, from, to, delta) ==
    IF RLt(param, Whole(0)) THEN from
    ELSE IF RGt(param, Whole(1)) THEN to
    ELSE RAdd(from, RMul(param, delta))

DistanceAt(point, lineStart, lineEnd, A, B, param) ==
    Hypot2(RSub(point.x, ClosestCoord(param, lineStart.x, lineEnd.x, A)),
           RSub(point.y, ClosestCoord(param, lineStart.y, lineEnd.y, B)))

DistanceWith(point, lineStart, lineEnd, A, B, C, D) ==
    DistanceAt(point, lineStart, lineEnd, A, B,
               ParamOf(RAdd(RMul(A, C), RMul(B, D)), Hypot2(A, B)))

(* variant: the textbook perpendicular distance to the infinite line      *)
(* through lineStart and lineEnd, without clamping to the segment         *)
Perpendicular2(cross, lenSq, C, D) ==
    IF StrictEq(lenSq, Whole(0)) THEN Hypot2(C, D)
    ELSE RDiv(RMul(cross, cross), lenSq)

PerpendicularWith(A, B, C, D) ==
    Perpendicular2(RSub(RMul(A, D), RMul(B, C)), Hypot2(A, B), C, D)

pointToLineDistance_unclamped(point, lineStart, lineEnd) ==
    PerpendicularWith(RSub(lineEnd.x, lineStart.x), RSub(lineEnd.y, lineStart.y),
                      RSub(point.x, lineStart.x), RSub(point.y, lineStart.y))

pointToLineDistance(point, lineStart, lineEnd) ==
    DistanceWith(point, lineStart, lineEnd,
                 RSub(lineEnd.x, lineStart.x), RSub(lineEnd.y, lineStart.y),
                 RSub(lineStart.x, point.x), RSub(lineStart.y, point.y))

(* variant: the comparison inverted *)
ExceedsTolerance_inverted(maxDistance, tol) ==
    IF IsNaN(tol) THEN FALSE
    ELSE IF RLt(tol, Whole(0)) THEN FALSE
    ELSE RLt(maxDistance, RMul(tol, tol))

(* maxDistance > tolerance, with maxDistance carried as its square *)
ExceedsTolerance(maxDistance, tol) ==
    IF IsNaN(tol) THEN FALSE
    ELSE IF RLt(tol, Whole(0)) THEN TRUE
    ELSE RGt(maxDistance, RMul(tol, tol))

(* The scan of the interior points with 0-based indices lo..hi:           *)
(*   maxDistance = 0; maxIndex = 0;                                        *)
(*   for (i = lo; i <= hi; i++) if (distance > maxDistance) { ... }        *)
(* evaluated as a balanced fold.  The loop keeps the first index whose     *)
(* distance is the greatest one above 0 (a NaN distance never compares     *)
(* greater), and so does the fold: ties go to the earlier half.            *)
NoneFarther == [maxDistance |-> Whole(0), maxIndex |-> 0]

Candidate(distance, i) ==
    IF RGt(distance, Whole(0)) THEN [maxDistance |-> distance, maxIndex |-> i]
    ELSE NoneFarther

Farther(earlier, later) ==
    IF RGt(later.maxDistance, earlier.maxDistance) THEN later ELSE earlier

RECURSIVE FarthestFrom(_, _, _)
FarthestFrom(pts, lo, hi) ==
    IF lo > hi THEN NoneFarther
    ELSE IF lo = hi
    THEN Candidate(pointToLineDistance(pts[lo + 1], pts[1], pts[Len(pts)]), lo)
    ELSE Farther(FarthestFrom(pts, lo, (lo + hi) \div 2),
                 FarthestFrom(pts, (lo + hi) \div 2 + 1, hi))

Return(v) == [kind |-> "return", value |-> v]

Throw(e) == [kind |-> "throw", value |-> e]

(* variant: the split point kept on both sides of the concatenation *)
MergeParts_dupSplit(leftPart, rightPart) ==
    IF leftPart.kind = "throw" THEN leftPart
    ELSE IF rightPart.kind = "throw" THEN rightPart
    ELSE Return(leftPart.value \o rightPart.value)

(* [...leftPart.slice(0, -1), ...rightPart]; a throw of either call        *)
(* propagates                                                              *)
MergeParts(leftPart, rightPart) ==
    IF leftPart.kind = "throw" THEN leftPart
    ELSE IF rightPart.kind = "throw" THEN rightPart
    ELSE Return(SubSeq(leftPart.value, 1, Len(leftPart.value) - 1) \o rightPart.value)

(* TrackToSVGConverter.simplifyPath.  With maxIndex = 0 the right part is  *)
(* the call itself: the recursion never ends and the engine throws a       *)
(* RangeError (call stack exhausted).                                      *)
RECURSIVE simplifyPath(_, _)
SplitOrCollapse(pts, tol, far) ==
    IF ExceedsTolerance(far.maxDistance, tol)
    THEN IF far.maxIndex = 0 THEN Throw("RangeError")
         ELSE MergeParts(simplifyPath(SubSeq(pts, 1, far.maxIndex + 1), tol),
                         simplifyPath(SubSeq(pts, far.maxIndex + 1, Len(pts)), tol))
    ELSE Return(<<pts[1], pts[Len(pts)]>>)

(* variant: the scan of the interior points starts one index late *)
simplifyPath_lateScan(pts, tol) ==
    IF Len(pts) <= 2 THEN Return(pts)
    ELSE SplitOrCollapse(pts, tol, FarthestFrom(pts, 2, Len(pts) - 2))

simplifyPath(pts, tol) ==
    IF Len(pts) <= 2 THEN Return(pts)
    ELSE SplitOrCollapse(pts, tol, FarthestFrom(pts, 1, Len(pts) - 2))

----------------------------------------------------------------------------
(* CoordinateTransform *)

(* Math.cos((centerLat * Math.PI) / 180), tabulated to three decimals for  *)
(* the center latitudes the model's tracks have                            *)
CosTable ==
    (Whole(0) :> Num(1000, 1000)) @@ (Num(1, 2) :> Num(1000, 1000)) @@
    (Whole(1) :> Num(1000, 1000)) @@ (Whole(30) :> Num(866, 1000)) @@
    (Num(61, 2) :> Num(862, 1000)) @@ (Whole(60) :> Num(500, 1000))

CosDegrees(centerLat) ==
    IF ~IsFinite(centerLat) THEN NaN ELSE CosTable[centerLat]

(* new CoordinateTransform(bounds, width, height, padding) *)
CoordinateTransform(bounds, width, height, padding) ==
    [bounds |-> bounds, width |-> width, height |-> height, padding |-> padding]

(* variant: the range is padded but its lower end is not moved *)
Normalized_unpaddedLow(value, low, range, padding) ==
    RDiv(RSub(value, low),
         RMul(range, RAdd(Whole(1), RMul(padding, Whole(2)))))

(* one axis: the value normalized against the padded range *)
Normalized(value, low, range, padding) ==
    RDiv(RSub(value, RSub(low, RMul(range, padding))),
         RMul(range, RAdd(Whole(1), RMul(padding, Whole(2)))))

(* variant: the vertical axis is not flipped *)
gpsToSVG_noFlip(this, lat, lng) ==
    [x |-> RMul(Normalized(lng, this.bounds.west,
                           RSub(this.bounds.east, this.bounds.west), this.padding),
                this.width),
     y |-> RMul(Normalized(lat, this.bounds.south,
                           RSub(this.bounds.north, this.bounds.south), this.padding),
                this.height)]

gpsToSVG(this, lat, lng) ==
    [x |-> RMul(Normalized(lng, this.bounds.west,
                           RSub(this.bounds.east, this.bounds.west), this.padding),
                this.width),
     y |-> RMul(RSub(Whole(1),
                     Normalized(lat, this.bounds.south,
                                RSub(this.bounds.north, this.bounds.south), this.padding)),
                this.height)]

getViewBox(this) == <<Whole(0), Whole(0), this.width, this.height>>

(* aspectRatio *)
AspectRatio(bounds) ==
    RDiv(RMul(RSub(bounds.east, bounds.west),
              CosDegrees(RDiv(RAdd(bounds.north, bounds.south), Whole(2)))),
         RSub(bounds.north, bounds.south))

(* variant: the height limit is not applied *)
LimitHeight_noLimit(maxWidth, maxHeight, aspectRatio, height) ==
    [width |-> MathRound(maxWidth), height |-> MathRound(height)]

(* the limit on the height, and the rounding of both dimensions *)
LimitHeight(maxWidth, maxHeight, aspectRatio, height) ==
    IF RGt(height, maxHeight)
    THEN [width |-> MathRound(RMul(maxHeight, aspectRatio)), height |-> MathRound(maxHeight)]
    ELSE [width |-> MathRound(maxWidth), height |-> MathRound(height)]

SizeFor(maxWidth, maxHeight, aspectRatio) ==
    LimitHeight(maxWidth, maxHeight, aspectRatio, RDiv(maxWidth, aspectRatio))

calculateOptimalDimensions(bounds, maxWidth, maxHeight) ==
    SizeFor(maxWidth, maxHeight, AspectRatio(bounds))

----------------------------------------------------------------------------
(* TrackToSVGConverter.convert *)

(* an option the caller left out *)
Undefined == [n |-> 0, d |-> -1]

OrDefault(v, default) == IF v = Undefined THEN default ELSE v

DefaultMaxWidth == 800
DefaultMaxHeight == 600
DefaultPadding == Num(1, 10)
DefaultSimplifyTolerance == Num(1, 1000)
SimplifyThreshold == 100

(* Number.prototype.toFixed(2), as the value of the digits it prints:      *)
(* the nearest hundredth, a tie going away from zero                       *)
ToFixed2(a) ==
    IF a.d <= 0 THEN a
    ELSE Num(Sign(a.n) * ((200 * Abs(a.n) + a.d) \div (2 * a.d)), 100)

(* variant: the first point is moved to but gets no command of its own,  *)
(* every point from the second on being drawn to                          *)
PathData_firstSkipped(pts) ==
    [i \in 1..(Len(pts) - 1) |->
        [cmd |-> IF i = 1 THEN "M" ELSE "L",
         x |-> ToFixed2(pts[i + 1].x), y |-> ToFixed2(pts[i + 1].y)]]

PathData(pts) ==
    [i \in 1..Len(pts) |->
        [cmd |-> IF i = 1 THEN "M" ELSE "L",
         x |-> ToFixed2(pts[i].x), y |-> ToFixed2(pts[i].y)]]

(* the SVGTrackData convert returns, or the throw of simplifyPath *)
ResultOf(track, transform, simpler) ==
    IF simpler.kind = "throw" THEN simpler
    ELSE Return([name |-> track.name,
                 svgPath |-> PathData(simpler.value),
                 viewBox |-> getViewBox(transform),
                 width |-> transform.width,
                 height |-> transform.height,
                 originalBounds |-> track.bounds])

PlanarPoint(coord, i) == [x |-> coord.x, y |-> coord.y, original |-> i]

(* trackData.points.map(...) *)
Projected(track, transform) ==
    SubSeq([i \in 1..Len(track.points) |->
               PlanarPoint(gpsToSVG(transform, track.points[i].lat, track.points[i].lng), i)],
           1, Len(track.points))

(* variant: the simplifier also runs on exactly 100 points *)
Simplified_atThreshold(projected, simplify, simplifyTolerance) ==
    IF simplify /\ Len(projected) >= SimplifyThreshold
    THEN simplifyPath(projected, simplifyTolerance)
    ELSE Return(projected)

Simplified(projected, simplify, simplifyTolerance) ==
    IF simplify /\ Len(projected) > SimplifyThreshold
    THEN simplifyPath(projected, simplifyTolerance)
    ELSE Return(projected)

ConvertWith(track, transform, simplify, simplifyTolerance) ==
    ResultOf(track, transform,
             Simplified(Projected(track, transform), simplify, simplifyTolerance))

ConvertSized(track, optimalDimensions, padding, simplify, simplifyTolerance) ==
    ConvertWith(track,
                CoordinateTransform(track.bounds, optimalDimensions.width,
                                    optimalDimensions.height, padding),
                simplify, simplifyTolerance)

convert(track, opts) ==
    ConvertSized(track,
                 calculateOptimalDimensions(track.bounds,
                     OrDefault(opts.maxWidth, Whole(DefaultMaxWidth)),
                     OrDefault(opts.maxHeight, Whole(DefaultMaxHeight))),
                 OrDefault(opts.padding, DefaultPadding),
                 opts.simplify,
                 OrDefault(opts.simplifyTolerance, DefaultSimplifyTolerance))

----------------------------------------------------------------------------
(* Tracks, as parseGPXFile builds them *)

RECURSIVE MathMax(_)
MathMax(S) ==
    IF S = {} THEN RNeg(Infinity)
    ELSE LET v == CHOOSE e \in S : TRUE
             m == MathMax(S \ {v})
         IN  IF RLt(m, v) THEN v ELSE m

RECURSIVE MathMin(_)
MathMin(S) ==
    IF S = {} THEN Infinity
    ELSE LET v == CHOOSE e \in S : TRUE
             m == MathMin(S \ {v})
         IN  IF RLt(v, m) THEN v ELSE m

BoundsOf(pts) ==
    LET lats == {pts[i].lat : i \in 1..Len(pts)}
        lngs == {pts[i].lng : i \in 1..Len(pts)}
    IN  [north |-> MathMax(lats), south |-> MathMin(lats),
         east |-> MathMax(lngs), west |-> MathMin(lngs)]

TrackOf(pts) == [name |-> "track", points |-> pts, bounds |-> BoundsOf(pts)]

----------------------------------------------------------------------------
(* parseGPXFile (TrackUploader), from the track points on.  A track point  *)
(* is [lat, lng, elevation, timestamp]; elevation and timestamp are        *)
(* Undefined where the trkpt element has no ele resp. time child, and a    *)
(* timestamp is the getTime() of its Date.  metadata.distance, the sum of  *)
(* the haversine distances, is not carried.                                *)

(* v || 0 *)
OrZero(v) == IF v = Undefined \/ IsNaN(v) THEN Whole(0) ELSE v

(* elevationGain after the loop body has run for i = 1 .. last (0-based)   *)
RECURSIVE ElevationGainUpTo(_, _)
ElevationGainUpTo(pts, last) ==
    IF last < 1 THEN Whole(0)
    ELSE IF RGt(OrZero(pts[last + 1].elevation), OrZero(pts[last].elevation))
    THEN RAdd(ElevationGainUpTo(pts, last - 1),
              RSub(OrZero(pts[last + 1].elevation), OrZero(pts[last].elevation)))
    ELSE ElevationGainUpTo(pts, last - 1)

ElevationGain(pts) ==
    IF \E i \in 1..Len(pts) : pts[i].elevation # Undefined
    THEN ElevationGainUpTo(pts, Len(pts) - 1)
    ELSE Whole(0)

(* the positions of the points whose timestamp is truthy (a Date is) *)
Timestamped(pts) == {i \in 1..Len(pts) : pts[i].timestamp # Undefined}

IndexMin(S) == CHOOSE i \in S : \A j \in S : i <= j

IndexMax(S) == CHOOSE i \in S : \A j \in S : j <= i

(* points.find(p => p.timestamp)?.timestamp *)
FirstTime(pts) ==
    IF Timestamped(pts) = {} THEN Undefined
    ELSE pts[IndexMin(Timestamped(pts))].timestamp

(* points.slice().reverse().find(p => p.timestamp)?.timestamp *)
LastTime(pts) ==
    IF Timestamped(pts) = {} THEN Undefined
    ELSE pts[IndexMax(Timestamped(pts))].timestamp

Duration(pts) ==
    IF FirstTime(pts) # Undefined /\ LastTime(pts) # Undefined
    THEN RSub(LastTime(pts), FirstTime(pts))
    ELSE Undefined

Metadata(pts) ==
    [duration |-> Duration(pts),
     elevationGain |->
         IF RGt(ElevationGain(pts), Whole(0)) THEN ElevationGain(pts) ELSE Undefined]

parseGPXFile(pts) ==
    IF Len(pts) = 0 THEN Throw("Error")
    ELSE Return([name |-> "track", points |-> pts, bounds |-> BoundsOf(pts),
                 metadata |-> Metadata(pts)])

----------------------------------------------------------------------------
(* Inputs of simplifyPath *)

MaxLen == 4

NoOptions ==
    [maxWidth |-> Undefined, maxHeight |-> Undefined, padding |-> Undefined,
     simplify |-> TRUE, simplifyTolerance |-> Undefined]

NoDimensions == [width |-> Undefined, height |-> Undefined]

NoCoord == [point |-> 0, x |-> Undefined, y |-> Undefined]

(* no file has been uploaded *)
NoUpload == trackPoints = <<>> /\ parsed = Return(<<>>)

(* no StickyRouteMap is mounted *)
NoMap ==
    /\ mode = "both"
    /\ routeRefs = <<>>
    /\ prefersReducedMotion = FALSE
    /\ isVisible = FALSE
    /\ entranceEffectCompleted = FALSE
    /\ scrollProgress = Whole(0)
    /\ pathLengths = <<>>
    /\ rendered = [prefersReducedMotion |-> FALSE, entranceEffectCompleted |-> FALSE,
                   pathLengths |-> <<>>]
    /\ reported = "none"
    /\ runs = EmptyBag
    /\ scrollY = 0

(* null, and a value held where null may be held *)
Null == [kind |-> "null", value |-> <<>>]

Some(v) == [kind |-> "value", value |-> v]

(* GPXDemo as constructed: no track, no SVG, no conversion waiting *)
NoDemo ==
    /\ demoTrackData = Null
    /\ svgData = Null
    /\ isConverting = FALSE
    /\ conversions = EmptyBag

SeqsUpTo(S, k) == UNION {[1..m -> S] : m \in 0..k}

(* the planar coordinates: a 3 by 2 grid *)
Grid == {<<gx, gy>> : gx \in 0..2, gy \in 0..1}

(* a planar point with its back-reference: `original` is the position of   *)
(* the GPX point it was projected from                                     *)
PlanarRuns ==
    {[i \in 1..Len(c) |-> [x |-> Whole(c[i][1]), y |-> Whole(c[i][2]), original |-> i]] :
        c \in SeqsUpTo(Grid, MaxLen)}

Tolerances == {Num(-1, 2), Whole(0), Num(1, 2), Whole(1), Whole(2)}

InitSimplify ==
    /\ call = "none"
    /\ points \in PlanarRuns
    /\ tolerance \in Tolerances
    /\ simplified = Return(<<>>)
    /\ trackData = TrackOf(<<>>)
    /\ options = NoOptions
    /\ dimensions = NoDimensions
    /\ svgCoord = NoCoord
    /\ svgTrack = Return(<<>>)
    /\ NoUpload
    /\ NoMap
    /\ NoDemo

SimplifyPath ==
    /\ call = "none"
    /\ call' = "simplifyPath"
    /\ simplified' = simplifyPath(points, tolerance)
    /\ UNCHANGED <<points, tolerance, trackData, options, dimensions, svgCoord, svgTrack,
                   metricsVars, stickyVars, demoVars>>

NextSimplify == SimplifyPath

SpecSimplify == InitSimplify /\ [][NextSimplify]_vars

----------------------------------------------------------------------------
(* Inputs of the projection and of convert *)

MaxBaseLen == 2
MaxDim2 == 6

LatValues == {Whole(0), Whole(1), Whole(60)}

LngValues == {Whole(0), Whole(40)}

GPXPoints == [lat : LatValues, lng : LngValues]

(* budgets in half pixels, negative and zero ones included, or left out *)
DimValues == {Undefined} \cup {Num(k, 2) : k \in (-2)..MaxDim2}

Paddings == {Undefined, Whole(0)}

ProjectPaddings == Paddings \cup {Num(1, 4)}

ShortTracks == {TrackOf(p) : p \in SeqsUpTo(GPXPoints, MaxBaseLen) \ {<<>>}}

InitProject ==
    /\ call = "none"
    /\ trackData \in ShortTracks
    /\ options \in [maxWidth : DimValues, maxHeight : DimValues, padding : ProjectPaddings,
                     simplify : {TRUE}, simplifyTolerance : {Undefined}]
    /\ dimensions = NoDimensions
    /\ svgCoord = NoCoord
    /\ points = <<>>
    /\ tolerance = Whole(0)
    /\ simplified = Return(<<>>)
    /\ svgTrack = Return(<<>>)
    /\ NoUpload
    /\ NoMap
    /\ NoDemo

CalculateOptimalDimensions ==
    /\ call = "none"
    /\ call' = "calculateOptimalDimensions"
    /\ dimensions' = calculateOptimalDimensions(trackData.bounds,
                          OrDefault(options.maxWidth, Whole(DefaultMaxWidth)),
                          OrDefault(options.maxHeight, Whole(DefaultMaxHeight)))
    /\ UNCHANGED <<points, tolerance, simplified, trackData, options, svgCoord, svgTrack,
                   metricsVars, stickyVars, demoVars>>

GpsToSVG(i) ==
    /\ call \in {"calculateOptimalDimensions", "gpsToSVG"}
    /\ call' = "gpsToSVG"
    /\ LET transform == CoordinateTransform(trackData.bounds, dimensions.width,
                                            dimensions.height,
                                            OrDefault(options.padding, DefaultPadding))
           svg == gpsToSVG(transform, trackData.points[i].lat, trackData.points[i].lng)
       IN  svgCoord' = [point |-> i, x |-> svg.x, y |-> svg.y]
    /\ UNCHANGED <<points, tolerance, simplified, trackData, options, dimensions, svgTrack,
                   metricsVars, stickyVars, demoVars>>

NextProject ==
    \/ CalculateOptimalDimensions
    \/ \E i \in 1..Len(trackData.points) : GpsToSVG(i)

SpecProject == InitProject /\ [][NextProject]_vars

(* a track standing still at its end: tail more samples of the last point *)
WithTail(base, tail) ==
    IF base = <<>> THEN base
    ELSE base \o [i \in 1..tail |-> base[Len(base)]]

TailLens == {0, SimplifyThreshold - 1, SimplifyThreshold}

P(lat, lng) == [lat |-> Whole(lat), lng |-> Whole(lng)]

(* the routes that get a tail: one place, a straight leg, a corner, a loop *)
LongBases ==
    {<<P(0, 0)>>, <<P(0, 0), P(1, 40)>>, <<P(0, 0), P(60, 0), P(1, 40)>>,
     <<P(0, 0), P(1, 40), P(0, 0), P(60, 40)>>}

ConvertTracks ==
    {TrackOf(b) : b \in SeqsUpTo(GPXPoints, MaxBaseLen)}
        \cup {TrackOf(WithTail(b, t)) : b \in LongBases, t \in TailLens \ {0}}

InitConvert ==
    /\ call = "none"
    /\ trackData \in ConvertTracks
    /\ options \in [maxWidth : {Undefined, Whole(-1), Whole(0), Whole(3)},
                     maxHeight : {Undefined, Whole(-1), Whole(0), Whole(2)},
                     padding : Paddings,
                     simplify : BOOLEAN,
                     simplifyTolerance : {Undefined, Whole(-1), Whole(1)}]
    /\ dimensions = NoDimensions
    /\ svgCoord = NoCoord
    /\ points = <<>>
    /\ tolerance = Whole(0)
    /\ simplified = Return(<<>>)
    /\ svgTrack = Return(<<>>)
    /\ NoUpload
    /\ NoMap
    /\ NoDemo

Convert ==
    /\ call = "none"
    /\ call' = "convert"
    /\ svgTrack' = convert(trackData, options)
    /\ UNCHANGED <<points, tolerance, simplified, trackData, options, dimensions, svgCoord,
                   metricsVars, stickyVars, demoVars>>

NextConvert == Convert

SpecConvert == InitConvert /\ [][NextConvert]_vars

----------------------------------------------------------------------------
(* Inputs of parseGPXFile *)

MaxSamples == 3

Elevations == {Undefined, Whole(-10), Whole(0), Whole(10)}

Timestamps == {Undefined, Whole(0), Whole(5)}

TrackPoints ==
    [lat : {Whole(0)}, lng : {Whole(0)}, elevation : Elevations, timestamp : Timestamps]

InitMetrics ==
    /\ call = "none"
    /\ trackPoints \in SeqsUpTo(TrackPoints, MaxSamples)
    /\ parsed = Return(<<>>)
    /\ points = <<>>
    /\ tolerance = Whole(0)
    /\ simplified = Return(<<>>)
    /\ trackData = TrackOf(<<>>)
    /\ options = NoOptions
    /\ dimensions = NoDimensions
    /\ svgCoord = NoCoord
    /\ svgTrack = Return(<<>>)
    /\ NoMap
    /\ NoDemo

ParseGPXFile ==
    /\ call = "none"
    /\ call' = "parseGPXFile"
    /\ parsed' = parseGPXFile(trackPoints)
    /\ UNCHANGED <<points, tolerance, simplified, trackData, options, dimensions,
                   svgCoord, svgTrack, trackPoints, stickyVars, demoVars>>

NextMetrics == ParseGPXFile

SpecMetrics == InitMetrics /\ [][NextMetrics]_vars

----------------------------------------------------------------------------
(* StickyRouteMap.  The component is followed from the end of its mount    *)
(* on.  State setters take effect in the state variables at once; the      *)
(* callbacks (updatePathDrawing, playEntranceEffect, handleScroll, the     *)
(* observer callback) read the values they closed over at the render that  *)
(* created them, kept in `rendered`, until React renders again.  Whenever  *)
(* a value in `rendered` changes, updatePathDrawing or playEntranceEffect  *)
(* gets a new identity, so the render re-runs the scroll effect and the    *)
(* observer effect: the registered scroll listener and the observer always *)
(* belong to the last render.                                              *)

(* the keyword none of stroke-dasharray *)
None == [n |-> 0, d |-> -2]

MathMin2(a, b) == IF RLt(b, a) THEN b ELSE a

MathMax2(a, b) == IF RGt(b, a) THEN b ELSE a

RECURSIVE SumOf(_, _)
SumOf(lengths, i) ==
    IF i = 0 THEN Whole(0) ELSE RAdd(SumOf(lengths, i - 1), lengths[i])

(* totalPathLength *)
TotalPathLength(lengths) == SumOf(lengths, Len(lengths))

Styled(refs, i, dasharray, dashoffset) ==
    [refs EXCEPT ![i].strokeDasharray = dasharray, ![i].strokeDashoffset = dashoffset]

(* routeRefs.current.forEach(...) of updatePathDrawing, from the element   *)
(* at position i on, with the remainingDistance left by the earlier ones   *)
RECURSIVE DrawFrom(_, _, _, _)
(* variant: a completely drawn segment takes nothing off remainingDistance *)
DrawFrom_noCarry(refs, lengths, i, remainingDistance) ==
    IF i > Len(refs) THEN refs
    ELSE IF i > Len(lengths) \/ lengths[i] = Whole(0)
    THEN DrawFrom(refs, lengths, i + 1, remainingDistance)
    ELSE IF RLe(remainingDistance, Whole(0))
    THEN DrawFrom(Styled(refs, i, lengths[i], lengths[i]), lengths, i + 1,
                  remainingDistance)
    ELSE IF RLe(lengths[i], remainingDistance)
    THEN DrawFrom(Styled(refs, i, lengths[i], Whole(0)), lengths, i + 1,
                  remainingDistance)
    ELSE DrawFrom(Styled(refs, i, lengths[i], RSub(lengths[i], remainingDistance)),
                  lengths, i + 1, Whole(0))

DrawFrom(refs, lengths, i, remainingDistance) ==
    IF i > Len(refs) THEN refs
    ELSE IF i > Len(lengths) \/ lengths[i] = Whole(0)
    THEN DrawFrom(refs, lengths, i + 1, remainingDistance)
    ELSE IF RLe(remainingDistance, Whole(0))
    THEN DrawFrom(Styled(refs, i, lengths[i], lengths[i]), lengths, i + 1,
                  remainingDistance)
    ELSE IF RLe(lengths[i], remainingDistance)
    THEN DrawFrom(Styled(refs, i, lengths[i], Whole(0)), lengths, i + 1,
                  RSub(remainingDistance, lengths[i]))
    ELSE DrawFrom(Styled(refs, i, lengths[i], RSub(lengths[i], remainingDistance)),
                  lengths, i + 1, Whole(0))

(* updatePathDrawing(progress) of the render with the values in closure;   *)
(* the result is the route elements as it leaves them                      *)
updatePathDrawing(closure, progress, refs) ==
    IF closure.prefersReducedMotion THEN refs
    ELSE DrawFrom(refs, closure.pathLengths, 1,
                  RMul(MathMax2(Whole(0), MathMin2(Whole(1), progress)),
                       TotalPathLength(closure.pathLengths)))

(* the effect "Initialize paths" *)
InitializePaths(reduced, refs) ==
    [i \in 1..Len(refs) |->
        IF reduced
        THEN [refs[i] EXCEPT !.strokeDasharray = None, !.strokeDashoffset = Whole(0)]
        ELSE [refs[i] EXCEPT !.strokeDasharray = refs[i].length,
                             !.strokeDashoffset = refs[i].length]]

(* the effect "Initialize path lengths": getTotalLength() of each element *)
MeasuredLengths(refs) == [i \in 1..Len(refs) |-> refs[i].length]

(* the geometry handleScroll reads: window.innerHeight, the height of the  *)
(* section and the document position of its top                            *)
WindowHeight == 2
SectionHeight == 4
SectionOffset == 1

(* the progress handleScroll computes at scroll position y *)
ProgressAt(y) ==
    IF /\ (SectionOffset - y) + SectionHeight > 0
       /\ SectionOffset - y < WindowHeight
       /\ SectionOffset - y <= 0
    THEN MathMin2(Whole(1),
                  RDiv(Whole(Abs(SectionOffset - y)),
                       MathMax2(Whole(1), Whole(SectionHeight - WindowHeight))))
    ELSE Whole(0)

(* variant: the listener registered in mode both whatever the flag *)
ScrollHandled_beforeCompletion(m, closure) ==
    m # "entrance-effect"

(* the scroll effect registers handleScroll *)
ScrollHandled(m, closure) ==
    /\ m # "entrance-effect"
    /\ ~(m = "both" /\ ~closure.entranceEffectCompleted)

(* the values a render closes over *)
CurrentValues ==
    [prefersReducedMotion |-> prefersReducedMotion,
     entranceEffectCompleted |-> entranceEffectCompleted,
     pathLengths |-> pathLengths]

(* an entrance effect that has just been started by playEntranceEffect *)
NewRun(closure) ==
    [phase |-> "delay", progress |-> Whole(0), eraseProgress |-> Whole(0),
     closure |-> closure]

(* playEntranceEffect() of the render with the values in closure *)
playEntranceEffect(closure, rs) ==
    IF closure.prefersReducedMotion \/ closure.entranceEffectCompleted THEN rs
    ELSE rs (+) SetToBag({NewRun(closure)})

(* the runs are timer and animation-frame chains that do not refer to one  *)
(* another: one that has ended leaves the bag, one that has moved on is    *)
(* replaced by its next state                                              *)
Without(rs, r) == rs (-) SetToBag({r})

Replaced(rs, r, next) == Without(rs, r) (+) SetToBag({next})

----------------------------------------------------------------------------
(* The mounted StickyRouteMap and its events *)

MaxRuns == 2

Modes == {"scroll-driven", "entrance-effect", "both"}

(* the lengths of the route paths: one route, or two segments *)
Routes == {<<Whole(4)>>, <<Whole(2), Whole(4)>>}

(* elapsed / duration, capped at 1, at the frames of an animation *)
Progresses == {Whole(0), Num(1, 2), Whole(1)}

(* before the section, half way and all the way through it, past it *)
ScrollPositions == {0, 2, 3, 5}

conversionVars == <<call, points, tolerance, simplified, trackData, options,
                    dimensions, svgCoord, svgTrack, metricsVars, demoVars>>

(* the path elements as React creates them *)
Unstyled(lengths) ==
    [i \in 1..Len(lengths) |->
        [length |-> lengths[i], strokeDasharray |-> None, strokeDashoffset |-> Whole(0)]]

(* the state at the end of the mount, the page at its top: the first       *)
(* render closed over                                                      *)
(* pathLengths = [], the effects have measured the paths (setPathLengths), *)
(* called handleScroll once in scroll-driven mode (a no-op on the paths,   *)
(* no length being known to it), created the observer and set the         *)
(* initial style of the paths                                              *)
InitSticky ==
    /\ call = "none"
    /\ points = <<>>
    /\ tolerance = Whole(0)
    /\ simplified = Return(<<>>)
    /\ trackData = TrackOf(<<>>)
    /\ options = NoOptions
    /\ dimensions = NoDimensions
    /\ svgCoord = NoCoord
    /\ svgTrack = Return(<<>>)
    /\ NoUpload
    /\ NoDemo
    /\ mode \in Modes
    /\ prefersReducedMotion \in BOOLEAN
    /\ \E lengths \in Routes :
          routeRefs = InitializePaths(prefersReducedMotion, Unstyled(lengths))
    /\ pathLengths = MeasuredLengths(routeRefs)
    /\ isVisible = FALSE
    /\ entranceEffectCompleted = FALSE
    /\ rendered = [prefersReducedMotion |-> prefersReducedMotion,
                   entranceEffectCompleted |-> FALSE, pathLengths |-> <<>>]
    /\ reported = "none"
    /\ runs = EmptyBag
    /\ scrollY = 0
    /\ scrollProgress = (IF mode = "scroll-driven" THEN ProgressAt(scrollY) ELSE Whole(0))

(* the change handler of usePrefersReducedMotion: setReduced(e.matches) *)
MediaChange ==
    /\ prefersReducedMotion' = ~prefersReducedMotion
    /\ UNCHANGED <<conversionVars, mode, routeRefs, isVisible, entranceEffectCompleted,
                   scrollProgress, pathLengths, rendered, reported, runs, scrollY>>

Report(isIntersecting) == IF isIntersecting THEN "intersecting" ELSE "notIntersecting"

(* the runs after the observer callback has handled an entry *)
RunsAfterEntry(isIntersecting) ==
    IF /\ isIntersecting
       /\ mode \in {"entrance-effect", "both"}
       /\ ~rendered.entranceEffectCompleted
    THEN playEntranceEffect(rendered, runs)
    ELSE runs

(* the IntersectionObserver callback: the observer reports an entry when   *)
(* it starts to observe and whenever the map enters or leaves the viewport *)
Intersect(isIntersecting) ==
    /\ reported # Report(isIntersecting)
    /\ BagCardinality(RunsAfterEntry(isIntersecting)) <= MaxRuns
    /\ reported' = Report(isIntersecting)
    /\ isVisible' = isIntersecting
    /\ runs' = RunsAfterEntry(isIntersecting)
    /\ UNCHANGED <<conversionVars, mode, routeRefs, prefersReducedMotion,
                   entranceEffectCompleted, scrollProgress, pathLengths, rendered, scrollY>>

(* variant: the pause is entered from the first frame past half the draw *)
Animate_earlyPause(r) ==
    /\ r.phase \in {"delay", "draw"}
    /\ \E progress \in Progresses :
          /\ r.phase = "delay" \/ RLt(r.progress, progress)
          /\ routeRefs' = updatePathDrawing(r.closure, progress, routeRefs)
          /\ runs' = Replaced(runs, r,
                         [r EXCEPT !.phase = IF RLt(progress, Num(1, 2))
                                             THEN "draw" ELSE "pause",
                                   !.progress = progress])
    /\ UNCHANGED <<conversionVars, mode, prefersReducedMotion, isVisible,
                   entranceEffectCompleted, scrollProgress, pathLengths, rendered,
                   reported, scrollY>>

(* animate(): the first call when the delay has passed, the later ones as  *)
(* animation frames, each with more time elapsed than the one before       *)
Animate(r) ==
    /\ r.phase \in {"delay", "draw"}
    /\ \E progress \in Progresses :
          /\ r.phase = "delay" \/ RLt(r.progress, progress)
          /\ routeRefs' = updatePathDrawing(r.closure, progress, routeRefs)
          /\ runs' = Replaced(runs, r,
                         [r EXCEPT !.phase = IF RLt(progress, Whole(1))
                                             THEN "draw" ELSE "pause",
                                   !.progress = progress])
    /\ UNCHANGED <<conversionVars, mode, prefersReducedMotion, isVisible,
                   entranceEffectCompleted, scrollProgress, pathLengths, rendered,
                   reported, scrollY>>

(* eraseAnimate(): the first call when the pause of one second has passed, *)
(* the later ones as animation frames                                      *)
EraseAnimate(r) ==
    /\ r.phase \in {"pause", "erase"}
    /\ \E eraseProgress \in Progresses :
          /\ r.phase = "pause" \/ RLt(r.eraseProgress, eraseProgress)
          /\ routeRefs' = updatePathDrawing(r.closure,
                                            RSub(Whole(1), eraseProgress), routeRefs)
          /\ IF RLt(eraseProgress, Whole(1))
             THEN /\ runs' = Replaced(runs, r,
                                 [r EXCEPT !.phase = "erase",
                                           !.eraseProgress = eraseProgress])
                  /\ UNCHANGED entranceEffectCompleted
             ELSE /\ runs' = Without(runs, r)
                  /\ entranceEffectCompleted' = TRUE
    /\ UNCHANGED <<conversionVars, mode, prefersReducedMotion, isVisible,
                   scrollProgress, pathLengths, rendered, reported, scrollY>>

(* a scroll event that moves the page to y: handleScroll runs where the    *)
(* scroll effect of the last render registered it as the listener          *)
Scroll(y) ==
    /\ y # scrollY
    /\ scrollY' = y
    /\ IF ScrollHandled(mode, rendered)
       THEN /\ scrollProgress' = ProgressAt(y)
            /\ routeRefs' = updatePathDrawing(rendered, ProgressAt(y), routeRefs)
       ELSE UNCHANGED <<scrollProgress, routeRefs>>
    /\ UNCHANGED <<conversionVars, mode, prefersReducedMotion, isVisible,
                   entranceEffectCompleted, pathLengths, rendered, reported, runs>>

(* the route elements after the effects of a render: the scroll effect     *)
(* calls handleScroll where it registers it, the effect "Initialize paths" *)
(* runs when prefersReducedMotion has changed                              *)
AfterInitialize(refs) ==
    IF rendered.prefersReducedMotion # prefersReducedMotion
    THEN InitializePaths(prefersReducedMotion, refs)
    ELSE refs

(* React renders with the state values set since the last render and runs  *)
(* the effects whose dependencies have changed                             *)
Render ==
    /\ rendered # CurrentValues
    /\ rendered' = CurrentValues
    /\ reported' = "none"
    /\ IF ScrollHandled(mode, CurrentValues)
       THEN /\ scrollProgress' = ProgressAt(scrollY)
            /\ routeRefs' = AfterInitialize(
                                updatePathDrawing(CurrentValues, ProgressAt(scrollY),
                                                  routeRefs))
       ELSE /\ UNCHANGED scrollProgress
            /\ routeRefs' = AfterInitialize(routeRefs)
    /\ UNCHANGED <<conversionVars, mode, prefersReducedMotion, isVisible,
                   entranceEffectCompleted, pathLengths, runs, scrollY>>

NextSticky ==
    \/ MediaChange
    \/ \E isIntersecting \in BOOLEAN : Intersect(isIntersecting)
    \/ \E r \in BagToSet(runs) : Animate(r)
    \/ \E r \in BagToSet(runs) : EraseAnimate(r)
    \/ \E y \in ScrollPositions : Scroll(y)
    \/ Render

SpecSticky == InitSticky /\ [][NextSticky]_vars

(* The map in a mode with an entrance effect while the user keeps reduced  *)
(* motion off and leaves the page where it is.  The timers (the delay, the *)
(* pause of one second) fire and the browser keeps delivering animation    *)
(* frames: a run that waits for its next call of animate or eraseAnimate   *)
(* gets it.                                                                *)
InitEntrance ==
    /\ InitSticky
    /\ mode \in {"entrance-effect", "both"}
    /\ ~prefersReducedMotion

NextEntrance ==
    \/ \E isIntersecting \in BOOLEAN : Intersect(isIntersecting)
    \/ \E r \in BagToSet(runs) : Animate(r)
    \/ \E r \in BagToSet(runs) : EraseAnimate(r)
    \/ Render

SpecEntranceFair ==
    /\ InitEntrance
    /\ [][NextEntrance]_vars
    /\ WF_vars(\E r \in BagToSet(runs) : Animate(r))
    /\ WF_vars(\E r \in BagToSet(runs) : EraseAnimate(r))

----------------------------------------------------------------------------
(* GPXDemo *)

MaxConversions == 2

(* the options handleTrackLoaded passes to convert *)
DemoOptions ==
    [maxWidth |-> Whole(400), maxHeight |-> Whole(500), padding |-> Num(1, 20),
     simplify |-> TRUE, simplifyTolerance |-> Whole(1)]

(* the tracks the uploader delivers *)
DemoTracks ==
    {TrackOf(<<P(0, 0), P(1, 40)>>), TrackOf(<<P(0, 0), P(60, 40)>>),
     TrackOf(<<P(0, 0), P(60, 0), P(1, 40)>>),
     TrackOf(<<P(0, 0), P(1, 40), P(0, 0), P(60, 40)>>)}

InitGPXDemo ==
    /\ call = "none"
    /\ points = <<>>
    /\ tolerance = Whole(0)
    /\ simplified = Return(<<>>)
    /\ trackData = TrackOf(<<>>)
    /\ options = NoOptions
    /\ dimensions = NoDimensions
    /\ svgCoord = NoCoord
    /\ svgTrack = Return(<<>>)
    /\ NoUpload
    /\ NoMap
    /\ NoDemo

notDemoVars == <<call, points, tolerance, simplified, trackData, options,
                 dimensions, svgCoord, svgTrack, metricsVars, stickyVars>>

(* handleTrackLoaded up to its await: the uploader, shown while no track   *)
(* is held, delivers a track                                               *)
HandleTrackLoaded(track) ==
    /\ demoTrackData = Null
    /\ BagCardinality(conversions) < MaxConversions
    /\ demoTrackData' = Some(track)
    /\ isConverting' = TRUE
    /\ conversions' = conversions (+) SetToBag({track})
    /\ UNCHANGED <<notDemoVars, svgData>>

(* the state after the try block: setSvgData with the result, or the catch *)
(* that only logs                                                          *)
SvgDataAfter(converted) ==
    IF converted.kind = "return" THEN Some(converted.value) ELSE svgData

(* handleTrackLoaded from its await on, when the timer of 500 ms fires *)
ConversionDone(track) ==
    /\ conversions' = conversions (-) SetToBag({track})
    /\ svgData' = SvgDataAfter(convert(track, DemoOptions))
    /\ isConverting' = FALSE
    /\ UNCHANGED <<notDemoVars, demoTrackData>>

(* handleReset, the button shown while a track is held *)
HandleReset ==
    /\ demoTrackData # Null
    /\ demoTrackData' = Null
    /\ svgData' = Null
    /\ UNCHANGED <<notDemoVars, isConverting, conversions>>

NextGPXDemo ==
    \/ \E track \in DemoTracks : HandleTrackLoaded(track)
    \/ \E track \in BagToSet(conversions) : ConversionDone(track)
    \/ HandleReset

SpecGPXDemo == InitGPXDemo /\ [][NextGPXDemo]_vars

----------------------------------------------------------------------------
(* Properties of simplifyPath *)

SimplifyRan == call = "simplifyPath" /\ RLe(Whole(0), tolerance)

Kept == {simplified.value[i].original : i \in 1..Len(simplified.value)}

(* C1: for a tolerance >= 0 simplifyPath returns a subsequence of its     *)
(* input (the same elements, in input order, none synthesized) that keeps *)
(* the first and the last input element and is no longer than the input.  *)
C1_Subsequence ==
    SimplifyRan =>
        /\ simplified.kind = "return"
        /\ LET out == simplified.value
           IN  /\ Len(out) <= Len(points)
               /\ \A i \in 1..Len(out) :
                      /\ out[i].original \in 1..Len(points)
                      /\ out[i] = points[out[i].original]
               /\ \A i \in 1..(Len(out) - 1) : out[i].original < out[i + 1].original
               /\ (points = <<>>) <=> (out = <<>>)
               /\ points # <<>> =>
                      /\ out[1].original = 1
                      /\ out[Len(out)].original = Len(points)

C1_Witness ==
    /\ SimplifyRan
    /\ simplified.kind = "return"
    /\ Len(points) >= 4
    /\ Len(simplified.value) = 3

(* the distance of p to the segment from s to e (projection parameter     *)
(* clamped to [0,1]), as its square                                       *)
SegmentDistance(p, s, e) ==
    LET ex == RSub(e.x, s.x)
        ey == RSub(e.y, s.y)
        px == RSub(p.x, s.x)
        py == RSub(p.y, s.y)
        lenSq == RAdd(RMul(ex, ex), RMul(ey, ey))
        t == IF lenSq = Whole(0) THEN Whole(0)
             ELSE RDiv(RAdd(RMul(px, ex), RMul(py, ey)), lenSq)
        tc == IF RLt(t, Whole(0)) THEN Whole(0)
              ELSE IF RGt(t, Whole(1)) THEN Whole(1) ELSE t
        dx == RSub(px, RMul(tc, ex))
        dy == RSub(py, RMul(tc, ey))
    IN  RAdd(RMul(dx, dx), RMul(dy, dy))

Dropped == (1..Len(points)) \ Kept

(* C2: every input point that simplifyPath drops is within the tolerance  *)
(* of the segment between the two retained points that are adjacent in    *)
(* the output and enclose it in input order.                              *)
C2_DroppedWithinTolerance ==
    SimplifyRan =>
        /\ simplified.kind = "return"
        /\ \A k \in Dropped :
              \E i \in 1..(Len(simplified.value) - 1) :
                  LET a == simplified.value[i]
                      b == simplified.value[i + 1]
                  IN  /\ a.original < k
                      /\ k < b.original
                      /\ RLe(SegmentDistance(points[k], a, b),
                             RMul(tolerance, tolerance))

C2_Witness ==
    /\ SimplifyRan
    /\ simplified.kind = "return"
    /\ Len(simplified.value) >= 3
    /\ \E k \in Dropped :
          /\ points[k] \notin {points[j] : j \in Kept}
          /\ \E i \in 1..(Len(simplified.value) - 1) :
                /\ simplified.value[i].original < k
                /\ k < simplified.value[i + 1].original
                /\ RGt(SegmentDistance(points[k], simplified.value[i],
                                       simplified.value[i + 1]), Whole(0))

(* C9: the output never gets longer when the tolerance grows. *)
C9_MonotoneInTolerance ==
    SimplifyRan =>
        /\ simplified.kind = "return"
        /\ \A t2 \in Tolerances :
              RLe(tolerance, t2) =>
                  LET larger == simplifyPath(points, t2)
                  IN  /\ larger.kind = "return"
                      /\ Len(larger.value) <= Len(simplified.value)

C9_Witness ==
    /\ SimplifyRan
    /\ simplified.kind = "return"
    /\ Len(simplified.value) >= 4
    /\ \E t2 \in Tolerances :
          /\ RLt(tolerance, t2)
          /\ Len(simplifyPath(points, t2).value) = 3
    /\ \E t3 \in Tolerances : Len(simplifyPath(points, t3).value) = 2

Collinear(p, q, r) ==
    RSub(RMul(RSub(q.x, p.x), RSub(r.y, p.y)),
         RMul(RSub(q.y, p.y), RSub(r.x, p.x))) = Whole(0)

NoThreeCollinear(pts) ==
    \A i, j, k \in 1..Len(pts) :
        (i < j /\ j < k) => ~Collinear(pts[i], pts[j], pts[k])

(* C10: with tolerance 0 a run of which no three points lie on one line   *)
(* is returned unchanged.                                                 *)
C10_ZeroToleranceIdentity ==
    (call = "simplifyPath" /\ tolerance = Whole(0) /\ NoThreeCollinear(points))
        => simplified = Return(points)

C10_Witness ==
    /\ call = "simplifyPath"
    /\ tolerance = Whole(0)
    /\ NoThreeCollinear(points)
    /\ Len(points) >= 4
    /\ simplified = Return(points)

(* q lies on the line through p and r and not behind p or beyond r *)
Between(p, q, r) ==
    /\ Collinear(p, q, r)
    /\ RLe(Whole(0), RAdd(RMul(RSub(q.x, p.x), RSub(r.x, q.x)),
                          RMul(RSub(q.y, p.y), RSub(r.y, q.y))))

(* more than two points laid out in order along one straight line *)
InOrderAlongLine(pts) ==
    /\ Len(pts) > 2
    /\ [x |-> pts[1].x, y |-> pts[1].y] # [x |-> pts[Len(pts)].x, y |-> pts[Len(pts)].y]
    /\ \A i, j, k \in 1..Len(pts) :
           (i <= j /\ j <= k) => Between(pts[i], pts[j], pts[k])

(* C11: more than two collinear points laid out in order along one        *)
(* straight line are simplified, for a tolerance >= 0 (the spec's case:   *)
(* 0.5), to exactly two points: the first and the last of the input.      *)
C11_CollinearCollapse ==
    (SimplifyRan /\ InOrderAlongLine(points)) =>
        simplified = Return(<<points[1], points[Len(points)]>>)

----------------------------------------------------------------------------
(* Properties of the canvas and of the projection *)

MaxWidthUsed == OrDefault(options.maxWidth, Whole(DefaultMaxWidth))

MaxHeightUsed == OrDefault(options.maxHeight, Whole(DefaultMaxHeight))

LatSpan == RSub(trackData.bounds.north, trackData.bounds.south)

LngSpan == RSub(trackData.bounds.east, trackData.bounds.west)

PositiveBudget == RGt(MaxWidthUsed, Whole(0)) /\ RGt(MaxHeightUsed, Whole(0))

IsPositiveInteger(a) == a.d = 1 /\ a.n >= 1

CanvasRan == call = "calculateOptimalDimensions" /\ PositiveBudget

(* C4: with a zero latitude span the canvas falls back to the 1:1 aspect   *)
(* ratio: width and height are equal positive integers within the budget. *)
C4_ZeroLatSpanSquareCanvas ==
    (CanvasRan /\ LatSpan = Whole(0)) =>
        /\ IsPositiveInteger(dimensions.width)
        /\ IsPositiveInteger(dimensions.height)
        /\ dimensions.width = dimensions.height
        /\ RLe(dimensions.width, MaxWidthUsed)
        /\ RLe(dimensions.height, MaxHeightUsed)

(* C5: with a zero latitude or longitude span every projected point is    *)
(* finite on both axes, and the point of a single-point track is the      *)
(* canvas center.                                                         *)
C5_DegenerateProjectionFinite ==
    (call = "gpsToSVG" /\ PositiveBudget /\ (LatSpan = Whole(0) \/ LngSpan = Whole(0))) =>
        /\ IsFinite(svgCoord.x)
        /\ IsFinite(svgCoord.y)
        /\ Len(trackData.points) = 1 =>
              /\ svgCoord.x = RDiv(dimensions.width, Whole(2))
              /\ svgCoord.y = RDiv(dimensions.height, Whole(2))

(* C6 as stated: for a latitude span > 0 and positive budgets the canvas  *)
(* is within the budget and meets it on at least one dimension.           *)
C6_WithinBudget ==
    (CanvasRan /\ RGt(LatSpan, Whole(0))) =>
        /\ RLe(dimensions.width, MaxWidthUsed)
        /\ RLe(dimensions.height, MaxHeightUsed)
        /\ (dimensions.width = MaxWidthUsed \/ dimensions.height = MaxHeightUsed)

(* C6 amended: the same for positive budgets that are whole numbers of    *)
(* pixels.                                                                *)
C6_WithinIntegerBudget ==
    (CanvasRan /\ RGt(LatSpan, Whole(0)) /\ MaxWidthUsed.d = 1 /\ MaxHeightUsed.d = 1) =>
        /\ RLe(dimensions.width, MaxWidthUsed)
        /\ RLe(dimensions.height, MaxHeightUsed)
        /\ (dimensions.width = MaxWidthUsed \/ dimensions.height = MaxHeightUsed)

C6_Witness ==
    /\ CanvasRan
    /\ RGt(LatSpan, Whole(0))
    /\ RGt(LngSpan, Whole(0))
    /\ MaxWidthUsed.d = 1
    /\ MaxHeightUsed.d = 1
    /\ dimensions.height = MaxHeightUsed
    /\ RLt(dimensions.width, MaxWidthUsed)
    /\ RGt(dimensions.width, Whole(0))

(* C7: for positive budgets both canvas dimensions are integers >= 1,     *)
(* also for a very wide and flat or a very tall and narrow track.         *)
C7_DimensionsAtLeastOne ==
    (CanvasRan /\ RGt(LatSpan, Whole(0)) /\ RGt(LngSpan, Whole(0))) =>
        /\ IsPositiveInteger(dimensions.width)
        /\ IsPositiveInteger(dimensions.height)

PaddingUsed == OrDefault(options.padding, DefaultPadding)

TransformUsed ==
    CoordinateTransform(trackData.bounds, dimensions.width, dimensions.height, PaddingUsed)

(* a track point has been projected onto a canvas (positive integer width *)
(* and height) from bounds of non-zero span                               *)
Projecting ==
    /\ call = "gpsToSVG"
    /\ IsPositiveInteger(dimensions.width)
    /\ IsPositiveInteger(dimensions.height)
    /\ LatSpan # Whole(0)
    /\ LngSpan # Whole(0)

ProjectedPoint == trackData.points[svgCoord.point]

(* size * p / (1 + 2p) and size * (1 + p) / (1 + 2p) *)
NearEdge(size, p) == RDiv(RMul(size, p), RAdd(Whole(1), RMul(Whole(2), p)))

FarEdge(size, p) ==
    RDiv(RMul(size, RAdd(Whole(1), p)), RAdd(Whole(1), RMul(Whole(2), p)))

WithinBounds(g) ==
    /\ RLe(trackData.bounds.south, g.lat)
    /\ RLe(g.lat, trackData.bounds.north)
    /\ RLe(trackData.bounds.west, g.lng)
    /\ RLe(g.lng, trackData.bounds.east)

----------------------------------------------------------------------------
(* Properties of convert *)

Converted == call = "convert" /\ svgTrack.kind = "return"

(* the transform convert projected with, from the canvas it returned *)
TransformOfResult ==
    CoordinateTransform(trackData.bounds, svgTrack.value.width, svgTrack.value.height,
                        PaddingUsed)

SimplifierRuns == options.simplify /\ Len(trackData.points) > SimplifyThreshold

(* the command the path has for the planar point pt at position i *)
CommandAt(i, pt) ==
    [cmd |-> IF i = 1 THEN "M" ELSE "L", x |-> ToFixed2(pt.x), y |-> ToFixed2(pt.y)]

(* C17: convert runs the simplifier only when simplify is enabled and the *)
(* track has more than 100 points; in every other case the path has       *)
(* exactly one command per track point, in track order, whatever the      *)
(* tolerance.                                                             *)
C17_SimplifierOnlyAboveThreshold ==
    (call = "convert" /\ ~SimplifierRuns) =>
        /\ svgTrack.kind = "return"
        /\ Len(svgTrack.value.svgPath) = Len(trackData.points)
        /\ \A i \in 1..Len(trackData.points) :
              svgTrack.value.svgPath[i] =
                  CommandAt(i, gpsToSVG(TransformOfResult, trackData.points[i].lat,
                                        trackData.points[i].lng))

C17_Witness ==
    /\ Converted
    /\ ~options.simplify
    /\ options.simplifyTolerance = Whole(1)
    /\ Len(trackData.points) > SimplifyThreshold
    /\ Len(svgTrack.value.svgPath) = Len(trackData.points)
    /\ \A i \in 1..Len(svgTrack.value.svgPath) : IsFinite(svgTrack.value.svgPath[i].x)

(* the points convert hands to the path emission *)
EmittedPoints ==
    Simplified(Projected(trackData, TransformOfResult), options.simplify,
               OrDefault(options.simplifyTolerance, DefaultSimplifyTolerance)).value

(* path has exactly one command per point of pts, in order: a MoveTo for  *)
(* the first point, a LineTo for every later one, nothing else            *)
MoveThenLines(path, pts) ==
    /\ pts = <<>> => path = <<>>
    /\ Len(path) = Len(pts)
    /\ \A i \in 1..Len(pts) :
          /\ path[i].cmd \in {"M", "L"}
          /\ (path[i].cmd = "M") <=> (i = 1)
          /\ path[i].x = ToFixed2(pts[i].x)
          /\ path[i].y = ToFixed2(pts[i].y)

(* C18: the path of an empty point sequence is the empty command          *)
(* sequence; otherwise it has exactly one command per point, in order,    *)
(* the first a MoveTo and every later one a LineTo, and no other kind.    *)
C18_MoveThenLines ==
    Converted => MoveThenLines(svgTrack.value.svgPath, EmittedPoints)

C18_Witness ==
    /\ Converted
    /\ SimplifierRuns
    /\ Len(svgTrack.value.svgPath) >= 3
    /\ Len(svgTrack.value.svgPath) < Len(trackData.points)
    /\ svgTrack.value.svgPath[1].cmd = "M"
    /\ svgTrack.value.svgPath[Len(svgTrack.value.svgPath)].cmd = "L"

(* C3: convert raises EmptyTrackError for a track without points. *)
C3_EmptyTrackRaises ==
    (call = "convert" /\ trackData.points = <<>>) =>
        svgTrack = Throw("EmptyTrackError")

(* C8: convert raises InvalidOptionError when maxWidth <= 0, when         *)
(* maxHeight <= 0 or when simplifyTolerance < 0.                          *)
C8_InvalidOptionRaises ==
    (/\ call = "convert"
     /\ \/ RLe(MaxWidthUsed, Whole(0))
        \/ RLe(MaxHeightUsed, Whole(0))
        \/ RLt(OrDefault(options.simplifyTolerance, DefaultSimplifyTolerance), Whole(0)))
        => svgTrack = Throw("InvalidOptionError")

(* C21: simplifyPath terminates for every finite point sequence and every *)
(* tolerance convert forwards to it: each recursive call is on a strictly *)
(* shorter run than its caller, so no call of convert ends in the         *)
(* RangeError of a recursion that never ends.                             *)
C21_SimplifyPathTerminates ==
    call = "convert" => svgTrack # Throw("RangeError")

----------------------------------------------------------------------------
(* Properties of the track metrics *)

Parsed == call = "parseGPXFile" /\ parsed.kind = "return"

(* the sum of the positive elevation differences over the consecutive     *)
(* pairs, up to the pair ending at position i, of which both points       *)
(* carry an elevation                                                     *)
RECURSIVE GainBetweenCarrying(_, _)
GainBetweenCarrying(pts, i) ==
    IF i < 2 THEN Whole(0)
    ELSE IF /\ pts[i - 1].elevation # Undefined
            /\ pts[i].elevation # Undefined
            /\ RGt(pts[i].elevation, pts[i - 1].elevation)
    THEN RAdd(GainBetweenCarrying(pts, i - 1),
              RSub(pts[i].elevation, pts[i - 1].elevation))
    ELSE GainBetweenCarrying(pts, i - 1)

(* C12: the elevation gain (none when the field is absent) is the sum of  *)
(* the positive elevation differences over exactly the consecutive pairs  *)
(* in which both samples carry an elevation; a missing elevation is never *)
(* taken for a number such as 0.                                          *)
C12_GainBetweenCarryingPairs ==
    Parsed =>
        OrDefault(parsed.value.metadata.elevationGain, Whole(0))
            = GainBetweenCarrying(trackPoints, Len(trackPoints))

(* C13: the elevation gain field is absent exactly when no sample carries *)
(* an elevation; it is present, possibly zero, when one does.             *)
C13_GainAbsentIffNoElevation ==
    Parsed =>
        ((parsed.value.metadata.elevationGain = Undefined)
            <=> (\A i \in 1..Len(trackPoints) : trackPoints[i].elevation = Undefined))

(* C14: the duration is the timestamp of the last timestamped sample      *)
(* minus that of the first, in point order, and is absent when fewer than *)
(* two samples carry a timestamp.                                         *)
C14_DurationLastMinusFirst ==
    Parsed =>
        parsed.value.metadata.duration =
            IF Cardinality(Timestamped(trackPoints)) >= 2
            THEN RSub(trackPoints[IndexMax(Timestamped(trackPoints))].timestamp,
                      trackPoints[IndexMin(Timestamped(trackPoints))].timestamp)
            ELSE Undefined

----------------------------------------------------------------------------
(* Properties of StickyRouteMap *)

(* C19: while prefers-reduced-motion is on (and the component has         *)
(* rendered with it) every route path is shown fully drawn: no entrance   *)
(* frame and no scroll handler leaves a path hidden or partially drawn    *)
(* (a stroke-dashoffset other than 0), also when the setting turned on    *)
(* while an entrance animation started earlier is still running.          *)
C19_ReducedMotionFullyDrawn ==
    (prefersReducedMotion /\ rendered.prefersReducedMotion) =>
        \A i \in 1..Len(routeRefs) : routeRefs[i].strokeDashoffset = Whole(0)

(* C20: once an entrance run has started (one is under way or has         *)
(* completed), no later intersection event starts another one, so two     *)
(* runs never write the path drawing at the same time.                    *)
C20_EntranceStartedOnce ==
    [][(runs # EmptyBag \/ entranceEffectCompleted)
          => BagCardinality(runs') <= BagCardinality(runs)]_vars

(* C22: in mode both a scroll event changes neither the route drawing nor *)
(* scrollProgress before the entrance effect has completed, so the scroll *)
(* handler drives the drawing only once entranceEffectCompleted is true;  *)
(* in mode entrance-effect no scroll event ever changes them.             *)
C22_ScrollWaitsForEntrance ==
    [][(/\ scrollY' # scrollY
        /\ \/ mode = "entrance-effect"
           \/ mode = "both" /\ ~entranceEffectCompleted)
          => (routeRefs' = routeRefs /\ scrollProgress' = scrollProgress)]_vars

(* the page has been scrolled through the whole section while an entrance *)
(* run, with the path lengths known to it, is erasing                     *)
C22_Witness ==
    /\ mode = "both"
    /\ ~entranceEffectCompleted
    /\ scrollY = 3
    /\ scrollProgress = Whole(0)
    /\ rendered.pathLengths # <<>>
    /\ \E r \in BagToSet(runs) : r.phase = "erase"

(* C24: in scroll-driven mode the drawing progress follows the scroll     *)
(* position: it stays within [0,1], never decreases while the page is     *)
(* scrolled down and never increases while it is scrolled up, also once   *)
(* the section has left the viewport.                                     *)
C24_ProgressFollowsScroll ==
    [][mode = "scroll-driven" =>
          /\ RLe(Whole(0), scrollProgress') /\ RLe(scrollProgress', Whole(1))
          /\ scrollY' > scrollY => RLe(scrollProgress, scrollProgress')
          /\ scrollY' < scrollY => RLe(scrollProgress', scrollProgress)]_vars

(* the length of the part of a path element that its dash pattern shows:  *)
(* all of it without a pattern, else the dash less the offset             *)
DrawnLength(ref) ==
    IF ref.strokeDasharray = None THEN ref.length
    ELSE RSub(ref.strokeDasharray, ref.strokeDashoffset)

RECURSIVE DrawnSum(_, _)
DrawnSum(refs, i) ==
    IF i = 0 THEN Whole(0) ELSE RAdd(DrawnSum(refs, i - 1), DrawnLength(refs[i]))

InArrayOrder(refs) ==
    \A i \in 1..Len(refs) :
        RGt(DrawnLength(refs[i]), Whole(0)) =>
            \A j \in 1..(i - 1) : DrawnLength(refs[j]) = refs[j].length

(* what updatePathDrawing(p), called with the values in closure, is to    *)
(* have left in refs                                                      *)
DrawnAs(closure, p, refs) ==
    (~closure.prefersReducedMotion /\ closure.pathLengths = MeasuredLengths(refs)) =>
        /\ DrawnSum(refs, Len(refs)) = RMul(p, TotalPathLength(closure.pathLengths))
        /\ InArrayOrder(refs)

(* the progress of the frame that left an entrance run in state r *)
FrameOf(r) ==
    IF r.phase = "erase" THEN RSub(Whole(1), r.eraseProgress) ELSE r.progress

(* C25: after updatePathDrawing(p), with reduced motion off and all       *)
(* segment lengths measured, the drawn lengths of the segments sum to p   *)
(* times the total route length and a segment has a drawn part only if    *)
(* every earlier segment is completely drawn; p is the progress of the    *)
(* scroll handler, or of the animation frame that moved a run on.         *)
C25_DrawnInArrayOrder ==
    [][/\ (scrollY' # scrollY /\ ScrollHandled(mode, rendered))
            => DrawnAs(rendered, scrollProgress', routeRefs')
       /\ \A r \in BagToSet(runs') :
            (CopiesIn(r, runs') > CopiesIn(r, runs) /\ r.phase # "delay")
                => DrawnAs(r.closure, FrameOf(r), routeRefs')]_vars

(* the scroll handler has drawn half of a route of two segments: the      *)
(* first completely, the second in part                                   *)
C25_Witness ==
    /\ mode = "scroll-driven"
    /\ ~rendered.prefersReducedMotion
    /\ rendered.pathLengths = <<Whole(2), Whole(4)>>
    /\ scrollProgress = Num(1, 2)
    /\ routeRefs[1].strokeDashoffset = Whole(0)
    /\ routeRefs[2].strokeDasharray = Whole(4)
    /\ routeRefs[2].strokeDashoffset = Whole(3)

(* the observer of a render with reduced motion off has reported the map  *)
(* in view, in a mode with an entrance effect                             *)
EntranceVisible ==
    /\ mode \in {"entrance-effect", "both"}
    /\ reported = "intersecting"
    /\ ~rendered.prefersReducedMotion

Rank(phase) ==
    CASE phase = "delay" -> 0
      [] phase = "draw" -> 1
      [] phase = "pause" -> 2
      [] phase = "erase" -> 3

(* a run in state next has come from one in state r by later frames *)
Follows(r, next) ==
    /\ next.closure = r.closure
    /\ Rank(r.phase) <= Rank(next.phase)
    /\ RLe(r.progress, next.progress)
    /\ RLe(r.eraseProgress, next.eraseProgress)
    /\ Rank(next.phase) >= 2 <=> next.progress = Whole(1)
    /\ Rank(next.phase) <= 2 => next.eraseProgress = Whole(0)

(* C23: in modes entrance-effect and both, reduced motion off, once the   *)
(* map is visible the entrance effect runs as delay, draw from progress 0 *)
(* up to 1, pause, erase from 1 down to 0, and eventually sets            *)
(* entranceEffectCompleted; the flag is set only by a run whose draw has  *)
(* reached 1, in the frame that draws the erase back at 0.                *)
C23_EntranceRunsToCompletion ==
    /\ [][\A next \in BagToSet(runs') :
              CopiesIn(next, runs') > CopiesIn(next, runs) =>
                  \/ next = NewRun(next.closure)
                  \/ \E r \in BagToSet(runs) :
                        CopiesIn(r, runs') < CopiesIn(r, runs) /\ Follows(r, next)]_vars
    /\ [][(~entranceEffectCompleted /\ entranceEffectCompleted') =>
              \E r \in BagToSet(runs) :
                  /\ CopiesIn(r, runs') < CopiesIn(r, runs)
                  /\ r.phase \in {"pause", "erase"}
                  /\ r.progress = Whole(1)
                  /\ routeRefs' = updatePathDrawing(r.closure, Whole(0), routeRefs)]_vars
    /\ EntranceVisible ~> entranceEffectCompleted

(* an entrance effect that drew the measured route has run to its end and *)
(* left every segment hidden                                              *)
C23_Witness ==
    /\ mode = "entrance-effect"
    /\ entranceEffectCompleted
    /\ ~prefersReducedMotion
    /\ ~rendered.prefersReducedMotion
    /\ rendered.pathLengths # <<>>
    /\ isVisible
    /\ runs = EmptyBag
    /\ \A i \in 1..Len(routeRefs) : routeRefs[i].strokeDashoffset = routeRefs[i].length

----------------------------------------------------------------------------
(* Properties of GPXDemo *)

(* C26: whenever svgData is non-null it is the conversion of the track    *)
(* currently held: after handleReset both stay null until a new track is  *)
(* loaded, and a conversion that was waiting when the user reset or       *)
(* loaded another track never installs its result over the newer state.   *)
C26_SvgDataOfHeldTrack ==
    svgData # Null =>
        /\ demoTrackData # Null
        /\ Return(svgData.value) = convert(demoTrackData.value, DemoOptions)

====
